---------------------------- MODULE Spec2Model ----------------------------
(***************************************************************************)
(* Model of the MCP hello-world server (wiggitywhitney/mcp-hello-world).   *)
(*                                                                         *)
(* The server registers two tools, "hello" and "polyglot", connects to a   *)
(* stdio transport and serves tool invocations.  "polyglot" calls a remote *)
(* language model through LangChain, in one of two variants of the source: *)
(*   "plain"      model.invoke(prompt), text extracted and trimmed         *)
(*   "structured" model.withStructuredOutput(schema).invoke(prompt),       *)
(*                the validated object serialised with JSON.stringify      *)
(*                                                                         *)
(* Text is modelled as a sequence of characters (one-character strings),   *)
(* so that trimming, escaping, parsing and concatenation are computed and  *)
(* not assumed.                                                            *)
(***************************************************************************)
EXTENDS Integers, Sequences, FiniteSets, TLC

(***************************************************************************)
(* Bounds of the model.                                                    *)
(***************************************************************************)
\* number of invocations a behaviour of Spec may hold (concurrently or not)
MaxInv == 2
\* longest string content / block payload drawn in SpecExtract
MaxLen == 3
\* longest block sequence drawn in SpecExtract
MaxBlocks == 3
\* longest field value drawn in SpecSerialize
MaxFieldLen == 2
\* longest list of registrations drawn in SpecRegister
MaxTools == 3
\* longest greeting drawn in SpecPrompt
MaxGreetingLen == 3

(***************************************************************************)
(* Text literals of the source.                                            *)
(***************************************************************************)
world == <<"w", "o", "r", "l", "d">>
ErrorPrefix == <<"E", "r", "r", "o", "r", " ", "c", "a", "l", "l", "i", "n", "g", " ", "L", "L", "M", ":", " ">>
UnknownErrorText == <<"U", "n", "k", "n", "o", "w", "n", " ", "e", "r", "r", "o", "r", " ", "o", "c", "c", "u", "r", "r", "e", "d">>
K_detectedLanguage == <<"d", "e", "t", "e", "c", "t", "e", "d", "L", "a", "n", "g", "u", "a", "g", "e">>
K_greeting == <<"g", "r", "e", "e", "t", "i", "n", "g">>
K_worldTranslation == <<"w", "o", "r", "l", "d", "T", "r", "a", "n", "s", "l", "a", "t", "i", "o", "n">>
K_languageFamily == <<"l", "a", "n", "g", "u", "a", "g", "e", "F", "a", "m", "i", "l", "y">>

(***************************************************************************)
(* String.prototype.trim: removes white space and line terminators from    *)
(* both ends.                                                              *)
(***************************************************************************)
IsWhiteSpace(c) == c \in {" ", "\t", "\n"}

RECURSIVE TrimStart(_)
TrimStart(s) ==
    IF s # <<>> /\ IsWhiteSpace(Head(s)) THEN TrimStart(Tail(s)) ELSE s

RECURSIVE TrimEnd(_)
TrimEnd(s) ==
    IF s # <<>> /\ IsWhiteSpace(s[Len(s)])
    THEN TrimEnd(SubSeq(s, 1, Len(s) - 1))
    ELSE s

trim_TrimStartOnly(s) == TrimStart(s)

trim(s) == TrimEnd(TrimStart(s))

(***************************************************************************)
(* Plain-text variant: text extraction from response.content, which is a   *)
(* string or an array of content blocks [type, text].                      *)
(***************************************************************************)
RECURSIVE JoinTextBlocks(_)
JoinTextBlocks(blocks) ==
    IF blocks = <<>> THEN <<>>
    ELSE (IF Head(blocks).type = "text" THEN Head(blocks).text ELSE <<>>)
         \o JoinTextBlocks(Tail(blocks))

responseText(content) ==
    IF content.isString THEN content.text ELSE JoinTextBlocks(content.blocks)

(***************************************************************************)
(* JSON data.  A value is [t |-> "string" | "number", s |-> its text]; an  *)
(* object is a sequence of members [k |-> key, v |-> value] in property    *)
(* order.                                                                  *)
(***************************************************************************)
JStr(s) == [t |-> "string", s |-> s]
JNum(s) == [t |-> "number", s |-> s]
Member(k, v) == [k |-> k, v |-> v]

HasKey(obj, k) == \E n \in 1..Len(obj) : obj[n].k = k

\* the value of property k: the last member written under that key
GetKey(obj, k) ==
    LET ns == {n \in 1..Len(obj) : obj[n].k = k}
    IN  obj[CHOOSE n \in ns : \A m \in ns : m <= n].v

\* two objects are equal as data when they have the same properties
SameObject(a, b) ==
    /\ \A n \in 1..Len(a) : HasKey(b, a[n].k) /\ GetKey(b, a[n].k) = GetKey(a, a[n].k)
    /\ \A n \in 1..Len(b) : HasKey(a, b[n].k) /\ GetKey(a, b[n].k) = GetKey(b, b[n].k)

(***************************************************************************)
(* JSON.stringify(value, null, 2) for an object of string/number values.   *)
(***************************************************************************)
EscapeChar(c) ==
    CASE c = "\"" -> <<"\\", "\"">>
      [] c = "\\" -> <<"\\", "\\">>
      [] c = "\n" -> <<"\\", "n">>
      [] c = "\t" -> <<"\\", "t">>
      [] OTHER    -> <<c>>

RECURSIVE EscapeText(_)
EscapeText(s) ==
    IF s = <<>> THEN <<>> ELSE EscapeChar(Head(s)) \o EscapeText(Tail(s))

Quote_NoEscape(s) == <<"\"">> \o s \o <<"\"">>

Quote(s) == <<"\"">> \o EscapeText(s) \o <<"\"">>

SerializeValue(v) == IF v.t = "string" THEN Quote(v.s) ELSE v.s

Indent == <<" ", " ">>

RECURSIVE SerializeMembers(_)
SerializeMembers(obj) ==
    IF obj = <<>> THEN <<>>
    ELSE Indent \o Quote(Head(obj).k) \o <<":", " ">> \o SerializeValue(Head(obj).v)
         \o (IF Len(obj) > 1 THEN <<",", "\n">> ELSE <<>>)
         \o SerializeMembers(Tail(obj))

JSONstringify(obj) ==
    IF obj = <<>> THEN <<"{", "}">>
    ELSE <<"{", "\n">> \o SerializeMembers(obj) \o <<"\n", "}">>

(***************************************************************************)
(* JSON.parse for the same subset: an object whose values are strings or   *)
(* numbers.  A result is [ok, val, next]; next is the position after what  *)
(* was read.                                                               *)
(***************************************************************************)
ParseFail == [ok |-> FALSE, val |-> <<>>, next |-> 0]
ParseOk(v, n) == [ok |-> TRUE, val |-> v, next |-> n]

JsonWs == {" ", "\t", "\n"}
Digits == {"0", "1", "2", "3", "4", "5", "6", "7", "8", "9"}

RECURSIVE SkipWs(_, _)
SkipWs(t, i) == IF i <= Len(t) /\ t[i] \in JsonWs THEN SkipWs(t, i + 1) ELSE i

Unescapable == {"\"", "\\", "n", "t", "/"}
Unescape(c) ==
    CASE c = "n" -> "\n"
      [] c = "t" -> "\t"
      [] OTHER   -> c

\* i is the position after the opening quote
RECURSIVE ReadString(_, _, _)
ReadString(t, i, acc) ==
    IF i > Len(t) THEN ParseFail
    ELSE IF t[i] = "\"" THEN ParseOk(acc, i + 1)
    ELSE IF t[i] = "\\"
         THEN IF i + 1 <= Len(t) /\ t[i + 1] \in Unescapable
              THEN ReadString(t, i + 2, Append(acc, Unescape(t[i + 1])))
              ELSE ParseFail
    ELSE IF t[i] \in {"\n", "\t"} THEN ParseFail   \* raw control character
    ELSE ReadString(t, i + 1, Append(acc, t[i]))

RECURSIVE ReadNumber(_, _, _)
ReadNumber(t, i, acc) ==
    IF i <= Len(t) /\ t[i] \in Digits
    THEN ReadNumber(t, i + 1, Append(acc, t[i]))
    ELSE IF acc = <<>> THEN ParseFail ELSE ParseOk(acc, i)

ReadValue(t, i) ==
    IF i > Len(t) THEN ParseFail
    ELSE IF t[i] = "\""
         THEN LET r == ReadString(t, i + 1, <<>>)
              IN  IF r.ok THEN ParseOk(JStr(r.val), r.next) ELSE ParseFail
    ELSE LET r == ReadNumber(t, i, <<>>)
         IN  IF r.ok THEN ParseOk(JNum(r.val), r.next) ELSE ParseFail

\* i is the position of the opening quote of a key
RECURSIVE ReadMembers(_, _, _)
ReadMembers(t, i, acc) ==
    IF i > Len(t) \/ t[i] # "\"" THEN ParseFail
    ELSE LET key == ReadString(t, i + 1, <<>>)
         IN  IF ~key.ok THEN ParseFail
             ELSE LET c == SkipWs(t, key.next)
                  IN  IF c > Len(t) \/ t[c] # ":" THEN ParseFail
                      ELSE LET v == ReadValue(t, SkipWs(t, c + 1))
                           IN  IF ~v.ok THEN ParseFail
                               ELSE LET e    == SkipWs(t, v.next)
                                        acc2 == Append(acc, Member(key.val, v.val))
                                    IN  IF e > Len(t) THEN ParseFail
                                        ELSE IF t[e] = "}" THEN ParseOk(acc2, e + 1)
                                        ELSE IF t[e] = ","
                                             THEN ReadMembers(t, SkipWs(t, e + 1), acc2)
                                        ELSE ParseFail

JSONparse(t) ==
    LET i == SkipWs(t, 1)
    IN  IF i > Len(t) \/ t[i] # "{" THEN ParseFail
        ELSE LET j == SkipWs(t, i + 1)
                 r == IF j <= Len(t) /\ t[j] = "}"
                      THEN ParseOk(<<>>, j + 1)
                      ELSE ReadMembers(t, j, <<>>)
             IN  IF r.ok /\ SkipWs(t, r.next) = Len(t) + 1 THEN r ELSE ParseFail


(***************************************************************************)
(* More text literals: the prompts of the two variants, tool names, and    *)
(* the texts the environment (caller, remote model, libraries) produces.   *)
(* "U+2192" stands for the single character RIGHTWARDS ARROW.              *)
(***************************************************************************)
PlainPromptHead ==
    <<"G", "i", "v", "e", "n", " ", "t", "h", "e", " ", "g", "r", "e", "e", "t", "i", "n", "g",
      " ", "\"">>
PlainPromptTail ==
    <<"\"", ",", " ", "i", "d", "e", "n", "t", "i", "f", "y", " ", "i", "t", "s", " ", "l",
      "a", "n", "g", "u", "a", "g", "e", " ", "a", "n", "d", " ", "r", "e", "p", "l", "y", " ",
      "w", "i", "t", "h", " ", "\"", "w", "o", "r", "l", "d", "\"", " ", "t", "r", "a", "n",
      "s", "l", "a", "t", "e", "d", " ", "i", "n", "t", "o", " ", "t", "h", "a", "t", " ", "s",
      "a", "m", "e", " ", "l", "a", "n", "g", "u", "a", "g", "e", ".", " ", "O", "n", "e", " ",
      "w", "o", "r", "d", " ", "o", "n", "l", "y", ".", " ", "E", "x", "a", "m", "p", "l", "e",
      "s", ":", " ", "h", "e", "l", "l", "o", " ", "U+2192", " ", "w", "o", "r", "l", "d", ",",
      " ", "b", "o", "n", "j", "o", "u", "r", " ", "U+2192", " ", "m", "o", "n", "d", "e", ",",
      " ", "h", "o", "l", "a", " ", "U+2192", " ", "m", "u", "n", "d", "o">>
StructuredPromptHead ==
    <<"A", "n", "a", "l", "y", "z", "e", " ", "t", "h", "i", "s", " ", "g", "r", "e", "e", "t",
      "i", "n", "g", ":", " ", "\"">>
StructuredPromptTail ==
    <<"\"", "\n", "\n", "D", "e", "t", "e", "r", "m", "i", "n", "e", ":", "\n", "1", ".", " ",
      "W", "h", "a", "t", " ", "l", "a", "n", "g", "u", "a", "g", "e", " ", "i", "s", " ", "t",
      "h", "i", "s", " ", "g", "r", "e", "e", "t", "i", "n", "g", " ", "f", "r", "o", "m", "?",
      "\n", "2", ".", " ", "W", "h", "a", "t", " ", "l", "a", "n", "g", "u", "a", "g", "e",
      " ", "f", "a", "m", "i", "l", "y", " ", "d", "o", "e", "s", " ", "i", "t", " ", "b", "e",
      "l", "o", "n", "g", " ", "t", "o", " ", "(", "e", ".", "g", ".", ",", " ", "R", "o", "m",
      "a", "n", "c", "e", ",", " ", "G", "e", "r", "m", "a", "n", "i", "c", ",", " ", "S", "l",
      "a", "v", "i", "c", ",", " ", "J", "a", "p", "o", "n", "i", "c", ")", "?", "\n", "3",
      ".", " ", "H", "o", "w", " ", "d", "o", " ", "y", "o", "u", " ", "s", "a", "y", " ",
      "\"", "w", "o", "r", "l", "d", "\"", " ", "i", "n", " ", "t", "h", "a", "t", " ", "l",
      "a", "n", "g", "u", "a", "g", "e", "?">>
Txt_hello ==
    <<"h", "e", "l", "l", "o">>
Txt_polyglot ==
    <<"p", "o", "l", "y", "g", "l", "o", "t">>
Txt_PolyglotResponse ==
    <<"P", "o", "l", "y", "g", "l", "o", "t", "R", "e", "s", "p", "o", "n", "s", "e">>
Txt_goodbye ==
    <<"g", "o", "o", "d", "b", "y", "e">>
Txt_bonjour ==
    <<"b", "o", "n", "j", "o", "u", "r">>
Txt_monde ==
    <<"m", "o", "n", "d", "e">>
Txt_mondePadded ==
    <<" ", "m", "o", "n", "d", "e", " ", "\n">>
Txt_mon ==
    <<"m", "o", "n">>
Txt_dePadded ==
    <<"d", "e", " ">>
Txt_thinking ==
    <<"h", "m", "m">>
Txt_123 ==
    <<"1", "2", "3">>
Txt_networkDown ==
    <<"n", "e", "t", "w", "o", "r", "k", " ", "d", "o", "w", "n">>
Txt_invalidApiKey ==
    <<"4", "0", "1", " ", "i", "n", "v", "a", "l", "i", "d", " ", "x", "-", "a", "p", "i", "-",
      "k", "e", "y">>
Txt_apiKeyNotFound ==
    <<"A", "n", "t", "h", "r", "o", "p", "i", "c", " ", "A", "P", "I", " ", "k", "e", "y", " ",
      "n", "o", "t", " ", "f", "o", "u", "n", "d">>
Txt_invalidSchema ==
    <<"I", "n", "v", "a", "l", "i", "d", " ", "s", "c", "h", "e", "m", "a">>
Txt_parseFailed ==
    <<"F", "a", "i", "l", "e", "d", " ", "t", "o", " ", "p", "a", "r", "s", "e", " ", "m", "o",
      "d", "e", "l", " ", "o", "u", "t", "p", "u", "t">>
Txt_schemaMismatch ==
    <<"M", "o", "d", "e", "l", " ", "o", "u", "t", "p", "u", "t", " ", "d", "o", "e", "s", " ",
      "n", "o", "t", " ", "m", "a", "t", "c", "h", " ", "s", "c", "h", "e", "m", "a">>
Txt_rateLimited ==
    <<"r", "a", "t", "e", " ", "l", "i", "m", "i", "t", "e", "d">>
Txt_unknownTool ==
    <<"U", "n", "k", "n", "o", "w", "n", " ", "t", "o", "o", "l", ":", " ">>
Txt_invalidArguments ==
    <<"I", "n", "v", "a", "l", "i", "d", " ", "a", "r", "g", "u", "m", "e", "n", "t", "s", ":",
      " ", "g", "r", "e", "e", "t", "i", "n", "g", " ", "m", "u", "s", "t", " ", "b", "e", " ",
      "a", " ", "s", "t", "r", "i", "n", "g">>
Raw_french ==
    <<"{", "\"", "d", "e", "t", "e", "c", "t", "e", "d", "L", "a", "n", "g", "u", "a", "g",
      "e", "\"", ":", "\"", "F", "r", "e", "n", "c", "h", "\"", ",", "\"", "g", "r", "e", "e",
      "t", "i", "n", "g", "\"", ":", "\"", "b", "o", "n", "j", "o", "u", "r", "\"", ",", "\"",
      "w", "o", "r", "l", "d", "T", "r", "a", "n", "s", "l", "a", "t", "i", "o", "n", "\"",
      ":", "\"", "m", "o", "n", "d", "e", "\"", ",", "\"", "l", "a", "n", "g", "u", "a", "g",
      "e", "F", "a", "m", "i", "l", "y", "\"", ":", "\"", "R", "o", "m", "a", "n", "c", "e",
      "\"", "}">>
Raw_quoted ==
    <<"{", "\"", "d", "e", "t", "e", "c", "t", "e", "d", "L", "a", "n", "g", "u", "a", "g",
      "e", "\"", ":", " ", "\"", "a", "\\", "\\", "b", "\"", ",", " ", "\"", "g", "r", "e",
      "e", "t", "i", "n", "g", "\"", ":", " ", "\"", "s", "a", "y", " ", "\\", "\"", "h", "i",
      "\\", "\"", "\"", ",", " ", "\"", "w", "o", "r", "l", "d", "T", "r", "a", "n", "s", "l",
      "a", "t", "i", "o", "n", "\"", ":", " ", "\"", "l", "e", "\\", "n", "m", "o", "n", "d",
      "e", "\"", ",", " ", "\"", "l", "a", "n", "g", "u", "a", "g", "e", "F", "a", "m", "i",
      "l", "y", "\"", ":", " ", "\"", "\"", "}">>
Raw_missingFamily ==
    <<"{", "\"", "d", "e", "t", "e", "c", "t", "e", "d", "L", "a", "n", "g", "u", "a", "g",
      "e", "\"", ":", "\"", "F", "r", "e", "n", "c", "h", "\"", ",", "\"", "g", "r", "e", "e",
      "t", "i", "n", "g", "\"", ":", "\"", "b", "o", "n", "j", "o", "u", "r", "\"", ",", "\"",
      "w", "o", "r", "l", "d", "T", "r", "a", "n", "s", "l", "a", "t", "i", "o", "n", "\"",
      ":", "\"", "m", "o", "n", "d", "e", "\"", "}">>
Raw_wrongType ==
    <<"{", "\"", "d", "e", "t", "e", "c", "t", "e", "d", "L", "a", "n", "g", "u", "a", "g",
      "e", "\"", ":", "\"", "F", "r", "e", "n", "c", "h", "\"", ",", "\"", "g", "r", "e", "e",
      "t", "i", "n", "g", "\"", ":", "\"", "b", "o", "n", "j", "o", "u", "r", "\"", ",", "\"",
      "w", "o", "r", "l", "d", "T", "r", "a", "n", "s", "l", "a", "t", "i", "o", "n", "\"",
      ":", "\"", "m", "o", "n", "d", "e", "\"", ",", "\"", "l", "a", "n", "g", "u", "a", "g",
      "e", "F", "a", "m", "i", "l", "y", "\"", ":", "4", "2", "}">>
Raw_extraField ==
    <<"{", "\"", "c", "o", "n", "f", "i", "d", "e", "n", "c", "e", "\"", ":", "9", ",", "\"",
      "d", "e", "t", "e", "c", "t", "e", "d", "L", "a", "n", "g", "u", "a", "g", "e", "\"",
      ":", "\"", "F", "r", "e", "n", "c", "h", "\"", ",", "\"", "g", "r", "e", "e", "t", "i",
      "n", "g", "\"", ":", "\"", "b", "o", "n", "j", "o", "u", "r", "\"", ",", "\"", "w", "o",
      "r", "l", "d", "T", "r", "a", "n", "s", "l", "a", "t", "i", "o", "n", "\"", ":", "\"",
      "m", "o", "n", "d", "e", "\"", ",", "\"", "l", "a", "n", "g", "u", "a", "g", "e", "F",
      "a", "m", "i", "l", "y", "\"", ":", "\"", "R", "o", "m", "a", "n", "c", "e", "\"", "}">>
Raw_truncated ==
    <<"{", "\"", "d", "e", "t", "e", "c", "t", "e", "d", "L", "a", "n", "g", "u", "a", "g",
      "e", "\"", ":", "\"", "F", "r", "e", "n", "c", "h", "\"", ",", "\"", "g", "r", "e", "e",
      "t", "i", "n", "g", "\"", ":", "\"", "b", "o", "n", "j">>

(***************************************************************************)
(* Values crossing the boundaries.                                         *)
(***************************************************************************)
\* a tool result: { content: [{ type: "text", text }] }
TextResult(t) == [content |-> <<[type |-> "text", text |-> t]>>]
NoResult == [content |-> <<>>]

\* a thrown value: an Error instance with its message, or any other value
\* (a string, a plain object, undefined), which may or may not carry a
\* description of its own
ErrorOf(kind, msg) ==
    [isError |-> TRUE, kind |-> kind, hasMessage |-> TRUE, message |-> msg]
NonError(has, msg) ==
    [isError |-> FALSE, kind |-> "NonError", hasMessage |-> has, message |-> msg]
NoError == [isError |-> FALSE, kind |-> "none", hasMessage |-> FALSE, message |-> <<>>]

\* response.content of a chat message
StringContent(t) == [isString |-> TRUE, text |-> t, blocks |-> <<>>]
BlockContent(bs) == [isString |-> FALSE, text |-> <<>>, blocks |-> bs]
Block(type, t) == [type |-> type, text |-> t]

\* what the remote call of one invocation comes to: the transport or the API
\* fails, or the remote model answers (content for a plain call, the raw
\* generated text for a structured call)
NoOutcome == [kind |-> "none", error |-> NoError, content |-> StringContent(<<>>), text |-> <<>>]
Throws(e) == [NoOutcome EXCEPT !.kind = "throw", !.error = e]
Answers(c) == [NoOutcome EXCEPT !.kind = "content", !.content = c]
Generates(t) == [NoOutcome EXCEPT !.kind = "output", !.text = t]

\* what a call returned to the handler: nothing yet, a chat message, or a
\* validated object
NoResponse == [kind |-> "none", content |-> StringContent(<<>>), obj |-> <<>>]
MessageResponse(c) == [NoResponse EXCEPT !.kind = "message", !.content = c]
ObjectResponse(o) == [NoResponse EXCEPT !.kind = "object", !.obj = o]

Returned(v) == [threw |-> FALSE, error |-> NoError, value |-> v]
Threw(e) == [threw |-> TRUE, error |-> e, value |-> NoResponse]

(***************************************************************************)
(* The environment: requests the caller may send and what the remote call  *)
(* may come to.                                                            *)
(***************************************************************************)
TransportFailure == ErrorOf("TransportFailure", Txt_networkDown)
AuthFailure == ErrorOf("AuthFailure", Txt_invalidApiKey)
MissingCredential == ErrorOf("AuthFailure", Txt_apiKeyNotFound)
SetupFailure == ErrorOf("SetupFailure", Txt_invalidSchema)
ThrownString == NonError(TRUE, Txt_rateLimited)
ThrownUndefined == NonError(FALSE, <<>>)

RemoteFailures == {TransportFailure, AuthFailure, ThrownString, ThrownUndefined}

PlainOutcomes ==
    {Throws(e) : e \in RemoteFailures} \cup
    {Answers(c) : c \in
        { StringContent(Txt_mondePadded),
          BlockContent(<<Block("text", Txt_mon), Block("thinking", Txt_thinking),
                         Block("text", Txt_dePadded)>>),
          BlockContent(<<>>) }}

StructuredOutcomes ==
    {Throws(e) : e \in RemoteFailures} \cup
    {Generates(t) : t \in
        { Raw_french, Raw_quoted, Raw_extraField,
          Raw_missingFamily, Raw_wrongType, Raw_truncated }}

\* outcomes of `new ChatAnthropic(...)` and of `model.withStructuredOutput(...)`:
\* the library call returns, or throws
ConstructOutcomes == {NoError, MissingCredential}
ConfigureOutcomes == {NoError, SetupFailure}

Greetings == {<<>>, Txt_bonjour}

Request(tool, arguments) == [toolName |-> tool, arguments |-> arguments]

PolyglotArguments ==
    {<<>>, <<Member(K_greeting, JNum(Txt_123))>>} \cup
    {<<Member(K_greeting, JStr(g))>> : g \in Greetings}

Requests ==
    {Request(Txt_hello, <<>>), Request(Txt_goodbye, <<>>)} \cup
    {Request(Txt_polyglot, a) : a \in PolyglotArguments}

(***************************************************************************)
(* Schemas (zod).  A schema is the sequence of its fields, each z.string() *)
(* and required.  Parsing an object against it fails when a field is       *)
(* missing or is not a string, and otherwise yields an object with exactly *)
(* the schema's fields, in the schema's order (unknown keys are stripped). *)
(***************************************************************************)
polyglotResponseSchema_FamilyOptional ==
    <<K_detectedLanguage, K_greeting, K_worldTranslation>>

polyglotResponseSchema ==
    <<K_detectedLanguage, K_greeting, K_worldTranslation, K_languageFamily>>

helloInputSchema == <<>>

polyglotInputSchema_Unchecked == <<>>

polyglotInputSchema == <<K_greeting>>

ZodValid(schema, obj) ==
    \A n \in 1..Len(schema) :
        HasKey(obj, schema[n]) /\ GetKey(obj, schema[n]).t = "string"

ZodParse(schema, obj) ==
    IF ZodValid(schema, obj)
    THEN [ok |-> TRUE,
          value |-> [n \in 1..Len(schema) |-> Member(schema[n], GetKey(obj, schema[n]))]]
    ELSE [ok |-> FALSE, value |-> <<>>]

\* the value of a destructured argument, undefined when absent
Undefined == [t |-> "undefined", s |-> <<"u", "n", "d", "e", "f", "i", "n", "e", "d">>]
Argument(arguments, k) == IF HasKey(arguments, k) THEN GetKey(arguments, k) ELSE Undefined

(***************************************************************************)
(* The remote model gateway (LangChain's ChatAnthropic).                   *)
(***************************************************************************)
\* model.invoke(prompt): the chat message, or the failure of the call
invoke(o) ==
    IF o.kind = "content" THEN Returned(MessageResponse(o.content)) ELSE Threw(o.error)

\* structuredModel.invoke(prompt): the generated text is parsed as JSON,
\* the parsed object is validated against the schema, and the validated
\* object is returned; each of the three steps may fail
MalformedModelOutput == ErrorOf("MalformedModelOutput", Txt_parseFailed)
SchemaValidationFailure == ErrorOf("SchemaValidationFailure", Txt_schemaMismatch)

\* the outcome of validation: z is the result of ZodParse
validatedOutput(z) ==
    IF z.ok THEN Returned(ObjectResponse(z.value)) ELSE Threw(SchemaValidationFailure)

\* a gateway that validates whatever the parser left before looking at
\* whether parsing succeeded
parsedOutput_ValidateFirst(schema, p) ==
    IF ~ZodValid(schema, p.val) THEN Threw(SchemaValidationFailure)
    ELSE IF p.ok THEN Returned(ObjectResponse(ZodParse(schema, p.val).value))
    ELSE Threw(MalformedModelOutput)

\* the outcome of parsing and validation: p is the result of JSONparse
parsedOutput(schema, p) ==
    IF p.ok THEN validatedOutput(ZodParse(schema, p.val)) ELSE Threw(MalformedModelOutput)

structuredInvoke(schema, o) ==
    IF o.kind = "output" THEN parsedOutput(schema, JSONparse(o.text)) ELSE Threw(o.error)

(***************************************************************************)
(* The tool handlers.                                                      *)
(***************************************************************************)
helloHandler_Hello == TextResult(Txt_hello)

helloHandler == TextResult(world)

\* a prompt built from the greeting with surrounding white space removed
prompt_Trimmed(v, greeting) ==
    IF v = "plain"
    THEN PlainPromptHead \o trim(greeting.s) \o PlainPromptTail
    ELSE StructuredPromptHead \o trim(greeting.s) \o StructuredPromptTail

\* the template literal of the prompt, with the greeting interpolated
prompt(v, greeting) ==
    IF v = "plain"
    THEN PlainPromptHead \o greeting.s \o PlainPromptTail
    ELSE StructuredPromptHead \o greeting.s \o StructuredPromptTail

\* error instanceof Error ? error.message : "Unknown error occurred"
errorMessage_Generic(error) == UnknownErrorText

errorMessage_AnyMessage(error) ==
    IF error.hasMessage THEN error.message ELSE UnknownErrorText

errorMessage(error) == IF error.isError THEN error.message ELSE UnknownErrorText

\* the catch block's return value
errorResult(error) == TextResult(ErrorPrefix \o errorMessage(error))

\* a handler that reports an answer without text as a failure
successResult_EmptyIsError(v, response) ==
    IF v = "plain" /\ trim(responseText(response.content)) = <<>>
    THEN TextResult(ErrorPrefix \o UnknownErrorText)
    ELSE IF v = "plain" THEN TextResult(trim(responseText(response.content)))
    ELSE TextResult(JSONstringify(response.obj))

\* the try block's return value
successResult(v, response) ==
    IF v = "plain"
    THEN TextResult(trim(responseText(response.content)))
    ELSE TextResult(JSONstringify(response.obj))

\* What the handler asks of the model for structured output: the schema the
\* output has to satisfy and the name the schema is given to the model
\* under; nothing of it in a plain call
NoStructure == [hasSchema |-> FALSE, schema |-> <<>>, hasName |-> FALSE, name |-> <<>>]

\* model.withStructuredOutput(schema), without the options argument
withStructuredOutput_NoName(schema, name) ==
    [hasSchema |-> TRUE, schema |-> schema, hasName |-> FALSE, name |-> <<>>]

\* model.withStructuredOutput(schema, { name })
withStructuredOutput(schema, name) ==
    [hasSchema |-> TRUE, schema |-> schema, hasName |-> TRUE, name |-> name]

\* the configuration of the model the handler of variant v invokes
structuredModel(v) ==
    IF v = "structured"
    THEN withStructuredOutput(polyglotResponseSchema, Txt_PolyglotResponse)
    ELSE NoStructure

\* The handler up to its await: the model client is constructed, in the
\* structured variant configured with the schema, and the prompt is built,
\* all before the try block; then the call is issued.  c and w are what
\* the two library calls come to.  path lists the positions the handler
\* passed: entered with validated arguments, building the prompt, awaiting
\* the model; structure is what the handler asked withStructuredOutput for.
polyglotStart_NoAwait(v, greeting, c, w) ==
    [st |-> "Succeeded", caught |-> NoError, prompt |-> prompt(v, greeting), calls |-> 1,
     path |-> <<"Validating", "Prompting", "AwaitingModel", "Succeeded">>,
     structure |-> structuredModel(v)]

polyglotStart(v, greeting, c, w) ==
    IF c # NoError
    THEN [st |-> "Escaped", caught |-> c, prompt |-> <<>>, calls |-> 0,
          path |-> <<"Validating">>, structure |-> NoStructure]
    ELSE IF v = "structured" /\ w # NoError
    THEN [st |-> "Escaped", caught |-> w, prompt |-> <<>>, calls |-> 0,
          path |-> <<"Validating">>, structure |-> structuredModel(v)]
    ELSE [st |-> "AwaitingModel", caught |-> NoError,
          prompt |-> prompt(v, greeting), calls |-> 1,
          path |-> <<"Validating", "Prompting", "AwaitingModel">>,
          structure |-> structuredModel(v)]

\* The handler from its await on: the try block's remainder and the catch.
\* r is what the awaited call came to
polyglotSettle(v, r) ==
    IF r.threw
    THEN [st |-> "Failed", caught |-> r.error, response |-> NoResponse,
          result |-> errorResult(r.error)]
    ELSE [st |-> "Succeeded", caught |-> NoError, response |-> r.value,
          result |-> successResult(v, r.value)]

\* the call the handler awaits: model.invoke(prompt) in the plain variant,
\* structuredModel.invoke(prompt) in the structured one
gatewayCall(v, o) ==
    IF v = "plain" THEN invoke(o) ELSE structuredInvoke(polyglotResponseSchema, o)

polyglotResume(v, o) == polyglotSettle(v, gatewayCall(v, o))

(***************************************************************************)
(* The tool registry.                                                      *)
(***************************************************************************)
ToolDescriptor(name, inputSchema, handler) ==
    [name |-> name, inputSchema |-> inputSchema, handler |-> handler]

\* the tools createServer registers, in order
ServerTools_Extra ==
    << ToolDescriptor(Txt_hello, helloInputSchema, "hello"),
       ToolDescriptor(Txt_polyglot, polyglotInputSchema, "polyglot"),
       ToolDescriptor(Txt_goodbye, helloInputSchema, "hello") >>

ServerTools_HelloOnly ==
    << ToolDescriptor(Txt_hello, helloInputSchema, "hello") >>

ServerTools ==
    << ToolDescriptor(Txt_hello, helloInputSchema, "hello"),
       ToolDescriptor(Txt_polyglot, polyglotInputSchema, "polyglot") >>

Lookup(reg, name) == {d \in reg : d.name = name}

\* register(descriptor): fails when the name is already registered
registerTool(reg, d) ==
    IF Lookup(reg, d.name) # {}
    THEN [ok |-> FALSE, registry |-> reg]
    ELSE [ok |-> TRUE, registry |-> reg \cup {d}]

RECURSIVE RegisterAll(_, _)
RegisterAll(reg, tools) ==
    IF tools = <<>> THEN [ok |-> TRUE, registry |-> reg]
    ELSE LET r == registerTool(reg, Head(tools))
         IN  IF r.ok THEN RegisterAll(r.registry, Tail(tools)) ELSE r

unknownToolResult(name) == TextResult(Txt_unknownTool \o name)
invalidArgumentsResult == TextResult(Txt_invalidArguments)

\* what is sent on the channel for one invocation
NoReply == [kind |-> "none", result |-> NoResult]
ResultReply(r) == [kind |-> "result", result |-> r]
FaultReply == [kind |-> "fault", result |-> NoResult]

(***************************************************************************)
(* State.                                                                  *)
(***************************************************************************)
VARIABLES
    tools,      \* the registrations createServer performs, in order
    variant,    \* which polyglot handler the build holds: "plain" or "structured"
    phase,      \* where main() is: "start", "created", "connected", "running",
                \* "failed", "exited"
    registry,   \* the server's registered tools: a set of ToolDescriptor
    inv,        \* the invocations, by id
    stdout,     \* what was written to stdout (the protocol stream)
    stderr,     \* what was written to stderr
    exitCode    \* the status process.exit was called with, -1 while running

vars == <<tools, variant, phase, registry, inv, stdout, stderr, exitCode>>

Ids == 1..MaxInv

\* an invocation: the request, which handlers ran, the handler's position,
\* what it sent to and got from the gateway, what it returned, what was
\* sent on the channel
NoInvocation ==
    [st |-> "Idle", toolName |-> <<>>, arguments |-> <<>>, ran |-> <<>>, path |-> <<>>,
     calls |-> 0, prompt |-> <<>>, structure |-> NoStructure, outcome |-> NoOutcome,
     caught |-> NoError,
     response |-> NoResponse, result |-> NoResult, reply |-> NoReply]

RunningNotice == "Hello World MCP server is running"
FailureNotice == "Failed to start server:"

\* a line written to a stream: the n-th protocol message of invocation i,
\* or a line of log text
ProtocolMessage(i, n) == [kind |-> "protocol", id |-> i, seq |-> n, line |-> ""]
LogLine(text) == [kind |-> "log", id |-> 0, seq |-> 0, line |-> text]

\* the protocol messages of invocation i in a stream
Sent(out, i) == {m \in out : m.kind = "protocol" /\ m.id = i}

\* the stream after one more protocol message of invocation i
SendReply(out, i) == out \cup {ProtocolMessage(i, Cardinality(Sent(out, i)) + 1)}

Init ==
    /\ tools = ServerTools
    /\ variant \in {"plain", "structured"}
    /\ phase = "start"
    /\ registry = {}
    /\ inv = [i \in Ids |-> NoInvocation]
    /\ stdout = {}
    /\ stderr = <<>>
    /\ exitCode = -1

(***************************************************************************)
(* Startup: main() and the catch on its promise.                           *)
(***************************************************************************)
\* const server = createServer(): both tools are registered
createServer_Unchecked ==
    /\ phase = "start"
    /\ registry' = RegisterAll({}, tools).registry
    /\ phase' = "created"
    /\ UNCHANGED <<tools, variant, inv, stdout, stderr, exitCode>>

\* a server that constructs the model client once, while it is created
createServer_ConstructsClient ==
    /\ phase = "start"
    /\ registry' = RegisterAll({}, tools).registry
    /\ \E c \in ConstructOutcomes :
          phase' = IF RegisterAll({}, tools).ok /\ c = NoError THEN "created" ELSE "failed"
    /\ UNCHANGED <<tools, variant, inv, stdout, stderr, exitCode>>

createServer ==
    /\ phase = "start"
    /\ LET r == RegisterAll({}, tools)
       IN  /\ registry' = r.registry
           /\ phase' = IF r.ok THEN "created" ELSE "failed"
    /\ UNCHANGED <<tools, variant, inv, stdout, stderr, exitCode>>

\* await server.connect(transport) resolves: the channel is bound
connect ==
    /\ phase = "created"
    /\ phase' = "connected"
    /\ UNCHANGED <<tools, variant, registry, inv, stdout, stderr, exitCode>>

\* await server.connect(transport) rejects
connectFails ==
    /\ phase = "created"
    /\ phase' = "failed"
    /\ UNCHANGED <<tools, variant, registry, inv, stdout, stderr, exitCode>>

\* the notice written with console.log, that is to stdout
logRunning_ToStdout ==
    /\ phase = "connected"
    /\ stdout' = stdout \cup {LogLine(RunningNotice)}
    /\ phase' = "running"
    /\ UNCHANGED <<tools, variant, registry, inv, stderr, exitCode>>

\* console.error("Hello World MCP server is running"), the continuation of
\* the await; it runs before any request is read from the channel
logRunning ==
    /\ phase = "connected"
    /\ stderr' = Append(stderr, LogLine(RunningNotice))
    /\ phase' = "running"
    /\ UNCHANGED <<tools, variant, registry, inv, stdout, exitCode>>

\* the catch logging the failure without ending the process with a failure
\* status
startupCatch_ExitZero ==
    /\ phase = "failed"
    /\ stderr' = Append(stderr, LogLine(FailureNotice))
    /\ exitCode' = 0
    /\ phase' = "exited"
    /\ UNCHANGED <<tools, variant, registry, inv, stdout>>

\* main().catch: console.error("Failed to start server:", error); process.exit(1)
startupCatch ==
    /\ phase = "failed"
    /\ stderr' = Append(stderr, LogLine(FailureNotice))
    /\ exitCode' = 1
    /\ phase' = "exited"
    /\ UNCHANGED <<tools, variant, registry, inv, stdout>>

(***************************************************************************)
(* Serving.                                                                *)
(***************************************************************************)
\* the invocation's record once the handler has returned or thrown, with
\* the reply written to the channel
Replied(rec) ==
    [rec EXCEPT !.reply = CASE rec.st = "AwaitingModel" -> NoReply
                            [] rec.st = "Escaped" -> FaultReply
                            [] OTHER -> ResultReply(rec.result)]

\* dispatch(request): look the tool up, validate the arguments against its
\* input schema, run its handler.  "hello" returns at once; "polyglot" runs
\* to its await, or throws on the way.
Received(req) ==
    [NoInvocation EXCEPT !.toolName = req.toolName, !.arguments = req.arguments]

\* the record of a polyglot invocation whose handler ran to s
polyglotStarted(rec, s) ==
    [rec EXCEPT !.st = s.st, !.ran = Append(@, "polyglot"), !.path = s.path,
                !.caught = s.caught,
                !.prompt = s.prompt, !.structure = s.structure, !.calls = s.calls]

helloReturned(rec) ==
    [rec EXCEPT !.st = "Returned", !.ran = Append(@, "hello"), !.result = helloHandler]

\* the handler of descriptor d is called with the validated arguments
callHandler(v, d, req, c, w) ==
    IF d.handler = "hello"
    THEN Replied(helloReturned(Received(req)))
    ELSE Replied(polyglotStarted(Received(req),
                     polyglotStart(v, Argument(req.arguments, K_greeting), c, w)))

callTool(v, d, req, c, w) ==
    IF ZodValid(d.inputSchema, req.arguments)
    THEN callHandler(v, d, req, c, w)
    ELSE Replied([Received(req) EXCEPT !.st = "Rejected",
                                       !.result = invalidArgumentsResult])

dispatched(v, found, req, c, w) ==
    IF found = {}
    THEN Replied([Received(req) EXCEPT !.st = "Rejected",
                                       !.result = unknownToolResult(req.toolName)])
    ELSE callTool(v, CHOOSE d \in found : TRUE, req, c, w)

\* a handler that issues the model call a second time after a failure
resumed_Retry(rec, o, h) ==
    IF h.st = "Failed" /\ rec.calls < 2
    THEN [rec EXCEPT !.calls = @ + 1, !.outcome = o]
    ELSE [rec EXCEPT !.st = h.st, !.path = Append(@, h.st), !.outcome = o,
                     !.caught = h.caught, !.response = h.response, !.result = h.result]

\* the record of an invocation whose handler resumed with outcome o and ran to h
resumed(rec, o, h) ==
    [rec EXCEPT !.st = h.st, !.path = Append(@, h.st), !.outcome = o, !.caught = h.caught,
                !.response = h.response, !.result = h.result]

Dispatch(i, req, c, w) ==
    /\ phase = "running"
    /\ inv[i].st = "Idle"
    /\ \A j \in Ids : j < i => inv[j].st # "Idle"
    /\ inv' = [inv EXCEPT ![i] = dispatched(variant, Lookup(registry, req.toolName),
                                            req, c, w)]
    /\ stdout' = IF inv'[i].reply # NoReply THEN SendReply(stdout, i) ELSE stdout
    /\ UNCHANGED <<tools, variant, phase, registry, stderr, exitCode>>

\* a single model client held at module level and shared by the calls, which
\* keeps failing once one call on it has failed
GatewayResolve_SharedBinding(i, o) ==
    /\ phase = "running"
    /\ inv[i].st = "AwaitingModel"
    /\ inv' = [inv EXCEPT ![i] =
                 Replied(resumed(@, o,
                     IF \E j \in Ids : inv[j].st = "Failed"
                     THEN polyglotSettle(variant, Threw(TransportFailure))
                     ELSE polyglotResume(variant, o)))]
    /\ stdout' = SendReply(stdout, i)
    /\ UNCHANGED <<tools, variant, phase, registry, stderr, exitCode>>

\* a server that hands the model's answers to the handlers in the order the
\* requests came in: a call cannot resolve while an earlier one is pending
GatewayResolve_InOrder(i, o) ==
    /\ phase = "running"
    /\ inv[i].st = "AwaitingModel"
    /\ \A j \in Ids : j < i => inv[j].st # "AwaitingModel"
    /\ inv' = [inv EXCEPT ![i] = Replied(resumed(@, o, polyglotResume(variant, o)))]
    /\ stdout' = SendReply(stdout, i)
    /\ UNCHANGED <<tools, variant, phase, registry, stderr, exitCode>>

\* a handler that takes its own tool out of the registry when its model call
\* has failed
GatewayResolve_Deregisters(i, o) ==
    /\ phase = "running"
    /\ inv[i].st = "AwaitingModel"
    /\ inv' = [inv EXCEPT ![i] = Replied(resumed(@, o, polyglotResume(variant, o)))]
    /\ stdout' = SendReply(stdout, i)
    /\ registry' = IF inv'[i].st = "Failed"
                   THEN registry \ Lookup(registry, inv[i].toolName)
                   ELSE registry
    /\ UNCHANGED <<tools, variant, phase, stderr, exitCode>>

\* the remote call of invocation i resolves with outcome o: the handler
\* resumes, returns its result, and the reply is written to the channel
GatewayResolve(i, o) ==
    /\ phase = "running"
    /\ inv[i].st = "AwaitingModel"
    /\ inv' = [inv EXCEPT ![i] = Replied(resumed(@, o, polyglotResume(variant, o)))]
    /\ stdout' = SendReply(stdout, i)
    /\ UNCHANGED <<tools, variant, phase, registry, stderr, exitCode>>

Outcomes(v) == IF v = "plain" THEN PlainOutcomes ELSE StructuredOutcomes

Serve ==
    \E i \in Ids, req \in Requests, c \in ConstructOutcomes, w \in ConfigureOutcomes :
        Dispatch(i, req, c, w)

\* the remote call of invocation i resolves, with any outcome
ResolveOf(i) == \E o \in Outcomes(variant) : GatewayResolve(i, o)

Resolve == \E i \in Ids : ResolveOf(i)

Next ==
    \/ createServer
    \/ connect
    \/ connectFails
    \/ logRunning
    \/ startupCatch
    \/ Serve
    \/ Resolve

Spec == Init /\ [][Next]_vars

\* the catch handler attached to main()'s promise runs once the promise is
\* rejected
FairSpec == Spec /\ WF_vars(startupCatch)

(***************************************************************************)
(* Helpers of the properties.                                              *)
(***************************************************************************)
Finished(i) == inv[i].st \in {"Rejected", "Returned", "Succeeded", "Failed", "Escaped"}

\* the reply is a tool result holding exactly one text block
OneTextBlock(reply) ==
    /\ reply.kind = "result"
    /\ Len(reply.result.content) = 1
    /\ reply.result.content[1].type = "text"

\* the payload of a reply's single text block
Payload(reply) == reply.result.content[1].text

StartsWith(s, prefix) ==
    Len(s) >= Len(prefix) /\ SubSeq(s, 1, Len(prefix)) = prefix

GatewayErrorKinds ==
    {"TransportFailure", "AuthFailure", "MalformedModelOutput", "SchemaValidationFailure"}

\* the invocation's arguments hold a greeting that is a string
HasStringGreeting(i) ==
    \E n \in 1..Len(inv[i].arguments) :
        inv[i].arguments[n].k = K_greeting /\ inv[i].arguments[n].v.t = "string"

(***************************************************************************)
(* C1.  For every polyglot invocation whose arguments passed validation,   *)
(* no exception propagates out of the handler, whichever step fails        *)
(* (constructing the model client, configuring it for structured output,   *)
(* or the model call): the handler always returns an InvocationResult.     *)
(***************************************************************************)
C1_NoExceptionEscapes ==
    \A i \in Ids :
        (inv[i].toolName = Txt_polyglot /\ inv[i].ran # <<>>) =>
            /\ inv[i].st \in {"AwaitingModel", "Succeeded", "Failed"}
            /\ inv[i].st # "AwaitingModel" => OneTextBlock(ResultReply(inv[i].result))

(***************************************************************************)
(* C2.  Whenever the gateway call of a polyglot invocation fails with a    *)
(* TransportFailure, AuthFailure, MalformedModelOutput or                  *)
(* SchemaValidationFailure, the reply is a normal result with exactly one  *)
(* text block reading "Error calling LLM: " followed by the error's        *)
(* message, and never a protocol-level fault.                              *)
(***************************************************************************)
C2_GatewayFailureIsErrorText ==
    \A i \in Ids :
        (inv[i].outcome # NoOutcome
           /\ gatewayCall(variant, inv[i].outcome).threw
           /\ gatewayCall(variant, inv[i].outcome).error.kind \in GatewayErrorKinds) =>
            /\ OneTextBlock(inv[i].reply)
            /\ Payload(inv[i].reply) =
                   ErrorPrefix \o gatewayCall(variant, inv[i].outcome).error.message

C2_Witness ==
    /\ variant = "structured"
    /\ inv[1].outcome = Throws(TransportFailure)
    /\ inv[1].reply = ResultReply(TextResult(ErrorPrefix \o Txt_networkDown))
    /\ inv[2].outcome = Generates(Raw_missingFamily)
    /\ inv[2].reply = ResultReply(TextResult(ErrorPrefix \o Txt_schemaMismatch))

(***************************************************************************)
(* C3.  hello, invoked any number of times and in any interleaving with    *)
(* other invocations, always returns exactly one text block "world",       *)
(* never calls the gateway, has no failure outcome, and changes no state:  *)
(* the step that serves it leaves the registry, the startup state, the     *)
(* log and every other invocation as they were.                            *)
(***************************************************************************)
C3_HelloState ==
    \A i \in Ids :
        inv[i].toolName = Txt_hello =>
            /\ inv[i].st = "Returned"
            /\ inv[i].ran = <<"hello">>
            /\ inv[i].reply = ResultReply(TextResult(world))
            /\ OneTextBlock(inv[i].reply)
            /\ inv[i].calls = 0
            /\ inv[i].outcome = NoOutcome
            /\ inv[i].caught = NoError

C3_HelloStep ==
    \A i \in Ids :
        (inv[i].st = "Idle" /\ inv'[i].toolName = Txt_hello) =>
            /\ \A j \in Ids \ {i} : inv'[j] = inv[j]
            /\ UNCHANGED <<tools, variant, phase, registry, stderr, exitCode>>

C3_HelloAlwaysWorld == [](C3_HelloState) /\ [][C3_HelloStep]_vars

C3_Witness ==
    /\ inv[1].toolName = Txt_polyglot
    /\ inv[1].st = "AwaitingModel"
    /\ inv[2].toolName = Txt_hello
    /\ inv[2].reply = ResultReply(TextResult(world))

(***************************************************************************)
(* Specifications for the handler's pure conversions.  Both start in the   *)
(* state Spec reaches when polyglot("bonjour") awaits its model call, and  *)
(* resolve that call with every response of a bounded family.              *)
(***************************************************************************)
\* the texts over an alphabet, up to length n
RECURSIVE Texts(_, _)
Texts(alphabet, n) ==
    IF n = 0 THEN {<<>>}
    ELSE Texts(alphabet, n - 1) \cup
         {Append(s, c) : s \in Texts(alphabet, n - 1), c \in alphabet}

\* the sequences over a set of elements, up to length n
RECURSIVE Lists(_, _)
Lists(elements, n) ==
    IF n = 0 THEN {<<>>}
    ELSE Lists(elements, n - 1) \cup
         {Append(s, e) : s \in Lists(elements, n - 1), e \in elements}

BonjourRequest == Request(Txt_polyglot, <<Member(K_greeting, JStr(Txt_bonjour))>>)

AwaitingBonjour(v) ==
    /\ tools = ServerTools
    /\ variant = v
    /\ phase = "running"
    /\ registry = RegisterAll({}, ServerTools).registry
    /\ inv = [i \in Ids |->
                IF i = 1
                THEN dispatched(v, Lookup(registry, Txt_polyglot), BonjourRequest,
                                NoError, NoError)
                ELSE NoInvocation]
    /\ stdout = {}
    /\ stderr = <<LogLine(RunningNotice)>>
    /\ exitCode = -1

\* plain variant: string contents and block sequences
ContentTexts == Texts({" ", "\n", "m"}, MaxLen)
ContentBlocks ==
    {Block(type, t) : type \in {"text", "thinking"}, t \in {<<>>, <<" ">>, <<"m">>, <<"m", " ">>}}
ModelContents ==
    {StringContent(t) : t \in ContentTexts} \cup
    {BlockContent(bs) : bs \in Lists(ContentBlocks, MaxBlocks)}

InitExtract == AwaitingBonjour("plain")
ExtractOutcomes == {Answers(c) : c \in ModelContents}
NextExtract == \E o \in ExtractOutcomes : GatewayResolve(1, o)
SpecExtract == InitExtract /\ [][NextExtract]_vars

\* structured variant: the remote model writes an object of four string
\* fields as compact JSON text; the fields hold every text a and b of the
\* family, and the two texts joined in either order
FieldTexts == Texts({"n", "\"", "\\", "\n"}, MaxFieldLen)
ModelObjects ==
    {<<Member(K_detectedLanguage, JStr(a)), Member(K_greeting, JStr(b)),
       Member(K_worldTranslation, JStr(a \o b)), Member(K_languageFamily, JStr(b \o a))>> :
        a \in FieldTexts, b \in FieldTexts}

RECURSIVE ModelString(_)
ModelString(s) ==
    IF s = <<>> THEN <<>>
    ELSE (IF Head(s) = "\n" THEN <<"\\", "n">>
          ELSE IF Head(s) \in {"\"", "\\"} THEN <<"\\", Head(s)>>
          ELSE <<Head(s)>>) \o ModelString(Tail(s))

RECURSIVE ModelMembers(_)
ModelMembers(obj) ==
    IF obj = <<>> THEN <<>>
    ELSE <<"\"">> \o Head(obj).k \o <<"\"", ":", "\"">> \o ModelString(Head(obj).v.s)
         \o <<"\"">> \o (IF Len(obj) > 1 THEN <<",">> ELSE <<>>) \o ModelMembers(Tail(obj))

ModelJson(obj) == <<"{">> \o ModelMembers(obj) \o <<"}">>

InitSerialize == AwaitingBonjour("structured")
SerializeOutcomes == {Generates(ModelJson(obj)) : obj \in ModelObjects}
NextSerialize == \E o \in SerializeOutcomes : GatewayResolve(1, o)
SpecSerialize == InitSerialize /\ [][NextSerialize]_vars

(***************************************************************************)
(* C4.  In the structured variant a polyglot invocation ends in Succeeded  *)
(* only if the object the model produced has all four fields present as    *)
(* strings; an output that parses but lacks a field or has a wrongly typed *)
(* field ends in an error-text reply, never in a success reply carrying a  *)
(* partially filled object.                                                *)
(***************************************************************************)
FourStringFields(obj) ==
    \A k \in {K_detectedLanguage, K_greeting, K_worldTranslation, K_languageFamily} :
        \E n \in 1..Len(obj) : obj[n].k = k /\ obj[n].v.t = "string"

C4_SuccessOnlyWithFourFields ==
    \A i \in Ids :
        (variant = "structured" /\ inv[i].outcome.kind = "output") =>
            /\ inv[i].st \in {"Succeeded", "Failed"}
            /\ inv[i].st = "Succeeded" =>
                  /\ JSONparse(inv[i].outcome.text).ok
                  /\ FourStringFields(JSONparse(inv[i].outcome.text).val)
                  /\ FourStringFields(inv[i].response.obj)
                  /\ Len(inv[i].response.obj) = 4
                  /\ FourStringFields(JSONparse(Payload(inv[i].reply)).val)
            /\ (JSONparse(inv[i].outcome.text).ok
                  /\ ~FourStringFields(JSONparse(inv[i].outcome.text).val)) =>
                  /\ inv[i].st = "Failed"
                  /\ OneTextBlock(inv[i].reply)
                  /\ StartsWith(Payload(inv[i].reply), ErrorPrefix)

C4_Witness ==
    /\ variant = "structured"
    /\ inv[1].outcome = Generates(Raw_missingFamily)
    /\ inv[1].st = "Failed"
    /\ inv[2].outcome = Generates(Raw_wrongType)
    /\ inv[2].st = "Failed"
    /\ StartsWith(Payload(inv[2].reply), ErrorPrefix)

(***************************************************************************)
(* C5.  In the structured variant, for every validated object the gateway  *)
(* returns, the success reply is one text block whose payload, parsed      *)
(* back as JSON, equals that object: serialisation loses, adds and alters  *)
(* nothing.                                                                *)
(***************************************************************************)
C5_SerializationRoundTrip ==
    \A i \in Ids :
        (variant = "structured" /\ inv[i].st = "Succeeded") =>
            /\ OneTextBlock(inv[i].reply)
            /\ JSONparse(Payload(inv[i].reply)).ok
            /\ JSONparse(Payload(inv[i].reply)).val = inv[i].response.obj
            /\ SameObject(JSONparse(Payload(inv[i].reply)).val, inv[i].response.obj)
            /\ FourStringFields(inv[i].response.obj)

C5_Witness ==
    /\ inv[1].st = "Succeeded"
    /\ inv[1].response.obj =
          <<Member(K_detectedLanguage, JStr(<<"\"", "\n">>)),
            Member(K_greeting, JStr(<<"\\", "n">>)),
            Member(K_worldTranslation, JStr(<<"\"", "\n", "\\", "n">>)),
            Member(K_languageFamily, JStr(<<"\\", "n", "\"", "\n">>))>>
    /\ JSONparse(Payload(inv[1].reply)).val = inv[1].response.obj

(***************************************************************************)
(* C6.  In the plain-text variant the success payload is the extracted     *)
(* text with surrounding white space removed, where the extracted text is  *)
(* the content itself when it is a string and otherwise the payloads of    *)
(* the text blocks only, concatenated in their original order.             *)
(***************************************************************************)
\* the payloads of the selected blocks, from the last back to the first
RECURSIVE ConcatUpTo(_, _)
ConcatUpTo(bs, n) == IF n = 0 THEN <<>> ELSE ConcatUpTo(bs, n - 1) \o bs[n].text

IsTextBlock(b) == b.type = "text"

ExtractedText(content) ==
    IF content.isString THEN content.text
    ELSE ConcatUpTo(SelectSeq(content.blocks, IsTextBlock),
                    Len(SelectSeq(content.blocks, IsTextBlock)))

\* p is s without its leading and trailing white space
IsTrimmed(p, s) ==
    /\ p = <<>> \/ (~IsWhiteSpace(p[1]) /\ ~IsWhiteSpace(p[Len(p)]))
    /\ \E a \in 0..Len(s) : \E b \in 0..(Len(s) - a) :
          /\ \A n \in 1..a : IsWhiteSpace(s[n])
          /\ \A n \in (Len(s) - b + 1)..Len(s) : IsWhiteSpace(s[n])
          /\ p = SubSeq(s, a + 1, Len(s) - b)

C6_PlainExtraction ==
    \A i \in Ids :
        (variant = "plain" /\ inv[i].outcome.kind = "content") =>
            /\ inv[i].st = "Succeeded"
            /\ OneTextBlock(inv[i].reply)
            /\ IsTrimmed(Payload(inv[i].reply), ExtractedText(inv[i].outcome.content))

C6_Witness ==
    /\ inv[1].outcome.content =
          BlockContent(<<Block("text", <<"m", " ">>), Block("thinking", <<"m">>),
                         Block("text", <<"m", " ">>)>>)
    /\ Payload(inv[1].reply) = <<"m", " ", "m">>

(***************************************************************************)
(* C7 (as claimed).  When polyglot catches a failure, the {message} of     *)
(* "Error calling LLM: {message}" is the failure's human-readable          *)
(* description whenever the failure carries one, and is the literal        *)
(* "Unknown error occurred" only when none is available.                   *)
(***************************************************************************)
C7_DescriptionWheneverCarried ==
    \A i \in Ids :
        inv[i].st = "Failed" =>
            /\ gatewayCall(variant, inv[i].outcome).error.hasMessage =>
                  Payload(inv[i].reply) =
                      ErrorPrefix \o gatewayCall(variant, inv[i].outcome).error.message
            /\ Payload(inv[i].reply) = ErrorPrefix \o UnknownErrorText =>
                  ~gatewayCall(variant, inv[i].outcome).error.hasMessage

(***************************************************************************)
(* C7 (amended).  When polyglot catches a failure, the {message} is the    *)
(* failure's message whenever the caught value is an Error instance, and   *)
(* is the literal "Unknown error occurred" for every other caught value,   *)
(* also for one that carries a description of its own.                     *)
(***************************************************************************)
C7_MessageOfErrorInstances ==
    \A i \in Ids :
        inv[i].st = "Failed" =>
            /\ OneTextBlock(inv[i].reply)
            /\ gatewayCall(variant, inv[i].outcome).error.isError =>
                  Payload(inv[i].reply) =
                      ErrorPrefix \o gatewayCall(variant, inv[i].outcome).error.message
            /\ ~gatewayCall(variant, inv[i].outcome).error.isError =>
                  Payload(inv[i].reply) = ErrorPrefix \o UnknownErrorText

C7_Witness ==
    /\ inv[1].outcome = Throws(ThrownString)
    /\ Payload(inv[1].reply) = ErrorPrefix \o UnknownErrorText
    /\ inv[2].outcome = Throws(AuthFailure)
    /\ Payload(inv[2].reply) = ErrorPrefix \o Txt_invalidApiKey

(***************************************************************************)
(* C8.  For every request naming a registered tool with well-typed         *)
(* arguments, dispatch runs exactly one handler, the one registered under  *)
(* that name, and the reply sent is exactly the InvocationResult that      *)
(* handler returned, unmodified.                                           *)
(***************************************************************************)
WellTyped(i) ==
    \/ inv[i].toolName = Txt_hello
    \/ inv[i].toolName = Txt_polyglot /\ HasStringGreeting(i)

C8_ReplyIsHandlerResult ==
    \A i \in Ids :
        (WellTyped(i) /\ inv[i].st \notin {"Idle", "AwaitingModel"}) =>
            /\ inv[i].ran = <<IF inv[i].toolName = Txt_hello THEN "hello" ELSE "polyglot">>
            /\ OneTextBlock(ResultReply(inv[i].result))
            /\ inv[i].reply = ResultReply(inv[i].result)

(***************************************************************************)
(* C9.  The polyglot handler runs, and the gateway is called, if and only  *)
(* if the arguments hold a greeting that is a string: a missing or         *)
(* non-string greeting yields a result carrying a validation error         *)
(* without running the handler, and every string, the empty one included,  *)
(* is accepted and embedded in the prompt handed to the model.             *)
(***************************************************************************)
PromptEmbeds(p, head, g) ==
    /\ Len(p) >= Len(head) + Len(g)
    /\ SubSeq(p, 1, Len(head)) = head
    /\ SubSeq(p, Len(head) + 1, Len(head) + Len(g)) = g

C10_UnknownToolIsRejected ==
    /\ \A i \in Ids :
          (inv[i].st # "Idle" /\ inv[i].toolName \notin {Txt_hello, Txt_polyglot}) =>
              /\ inv[i].st = "Rejected"
              /\ OneTextBlock(inv[i].reply)
              /\ Payload(inv[i].reply) = Txt_unknownTool \o inv[i].toolName
              /\ inv[i].ran = <<>>
              /\ inv[i].calls = 0
              /\ inv[i].caught = NoError
              /\ phase = "running"
              /\ exitCode = -1
    /\ (phase = "running" /\ \E j \in Ids : inv[j].st = "Idle") => ENABLED Serve

C10_Witness ==
    /\ inv[1].toolName = Txt_goodbye
    /\ inv[1].st = "Rejected"
    /\ inv[2].toolName = Txt_polyglot
    /\ inv[2].st = "Succeeded"

(***************************************************************************)
(* C11.  Within one polyglot invocation exactly one reply is sent, and it  *)
(* is sent only after the invocation's gateway call has resolved, with     *)
(* success or with failure: nothing is written to the channel while the    *)
(* call is pending, and a reply once sent is never followed or replaced    *)
(* by another.                                                             *)
(***************************************************************************)
C11_State ==
    \A i \in Ids :
        (inv[i].toolName = Txt_polyglot /\ inv[i].st # "Idle") =>
            /\ Cardinality(Sent(stdout, i)) = IF inv[i].st = "AwaitingModel" THEN 0 ELSE 1
            /\ inv[i].st = "AwaitingModel" => inv[i].reply = NoReply
            /\ (inv[i].calls > 0 /\ inv[i].reply # NoReply) =>
                  /\ inv[i].outcome # NoOutcome
                  /\ inv[i].st \in {"Succeeded", "Failed"}

C11_Step ==
    \A i \in Ids :
        /\ Sent(stdout', i) # Sent(stdout, i) =>
              /\ Sent(stdout, i) = {}
              /\ Cardinality(Sent(stdout', i)) = 1
              /\ inv[i].st = "AwaitingModel" => inv'[i].outcome # NoOutcome
        /\ inv[i].reply # NoReply => inv'[i].reply = inv[i].reply

C11_OneReplyAfterGatewayResolves == [](C11_State) /\ [][C11_Step]_vars

C11_Witness ==
    /\ inv[1].toolName = Txt_polyglot
    /\ inv[1].st = "Failed"
    /\ Sent(stdout, 1) = {ProtocolMessage(1, 1)}
    /\ inv[2].toolName = Txt_polyglot
    /\ inv[2].st = "AwaitingModel"
    /\ Sent(stdout, 2) = {}

(***************************************************************************)
(* C12.  For any number of invocations in flight at once, resolving in     *)
(* any order and after any history, each invocation's reply is determined  *)
(* only by its own greeting and the outcome of its own gateway call: the   *)
(* reply is the handler's function of those alone, two invocations with    *)
(* the same inputs get the same reply whatever happened to the others, a   *)
(* step of one invocation changes nothing of another, and no serving step  *)
(* writes state the invocations share.                                     *)
(***************************************************************************)
\* the inputs of invocation i: its request, what its own library calls threw
\* before the await, and what its own gateway call came to
OwnInputs(i) ==
    <<inv[i].toolName, inv[i].arguments, inv[i].outcome,
      IF inv[i].st = "Escaped" THEN inv[i].caught ELSE NoError>>

C12_State ==
    /\ \A i \in Ids :
          (inv[i].toolName = Txt_polyglot /\ inv[i].st \in {"Succeeded", "Failed"}) =>
              /\ inv[i].prompt = prompt(variant, Argument(inv[i].arguments, K_greeting))
              /\ inv[i].reply = ResultReply(polyglotResume(variant, inv[i].outcome).result)
    /\ \A i, j \in Ids :
          (Finished(i) /\ Finished(j) /\ OwnInputs(i) = OwnInputs(j)) =>
              inv[i].reply = inv[j].reply

C12_Step ==
    /\ \A i, j \in Ids : (i # j /\ inv'[i] # inv[i]) => inv'[j] = inv[j]
    /\ \A i \in Ids : Finished(i) => inv'[i] = inv[i]
    /\ phase = "running" => UNCHANGED <<tools, variant, phase, registry, stderr, exitCode>>

C12_InvocationsAreIndependent == [](C12_State) /\ [][C12_Step]_vars

C12_Witness ==
    /\ inv[1].toolName = Txt_polyglot
    /\ inv[1].st = "Failed"
    /\ inv[1].caught = TransportFailure
    /\ inv[2].toolName = Txt_polyglot
    /\ inv[2].arguments = inv[1].arguments
    /\ inv[2].st = "Succeeded"
    /\ Sent(stdout, 1) # {} /\ Sent(stdout, 2) # {}

(***************************************************************************)
(* C13.  At startup both tools are registered before the server begins     *)
(* listening on the channel, so no invocation can be dispatched while      *)
(* hello or polyglot is missing from the registry; the "server is running" *)
(* notice is emitted exactly once and only after the channel was bound.    *)
(***************************************************************************)
BothRegistered ==
    /\ Cardinality(Lookup(registry, Txt_hello)) = 1
    /\ Cardinality(Lookup(registry, Txt_polyglot)) = 1

\* how many times a line of log text was written to a stream
RECURSIVE Occurrences(_, _)
Occurrences(stream, text) ==
    IF stream = <<>> THEN 0
    ELSE (IF Head(stream) = LogLine(text) THEN 1 ELSE 0) + Occurrences(Tail(stream), text)

Listening == phase \in {"connected", "running"}

C13_State ==
    /\ Listening => BothRegistered
    /\ (\E i \in Ids : inv[i].st # "Idle") => (BothRegistered /\ phase = "running")
    /\ ENABLED Serve => BothRegistered
    /\ Occurrences(stderr, RunningNotice) = IF phase = "running" THEN 1 ELSE 0

C13_Step ==
    /\ (~Listening /\ Listening') => (BothRegistered /\ phase = "created")
    /\ Occurrences(stderr', RunningNotice) # Occurrences(stderr, RunningNotice) =>
          (phase = "connected" /\ Occurrences(stderr, RunningNotice) = 0)

C13_RegisteredBeforeListening == [](C13_State) /\ [][C13_Step]_vars

C13_Witness ==
    /\ phase = "running"
    /\ stderr = <<LogLine(RunningNotice)>>
    /\ inv[1].toolName = Txt_hello /\ inv[1].st = "Returned"
    /\ inv[2].toolName = Txt_polyglot /\ inv[2].st = "AwaitingModel"

(***************************************************************************)
(* C14.  In every reachable state, nothing the program itself logs (the    *)
(* "server is running" notice and the startup-failure diagnostic) is on    *)
(* the stream that carries protocol replies: stdout holds protocol         *)
(* messages only, and a step that logs leaves stdout as it was.            *)
(***************************************************************************)
C14_State ==
    /\ \A m \in stdout : m.kind = "protocol" /\ m.id \in Ids
    /\ LogLine(RunningNotice) \notin stdout
    /\ LogLine(FailureNotice) \notin stdout
    /\ \A n \in 1..Len(stderr) : stderr[n].kind = "log"
    /\ phase = "running" => Occurrences(stderr, RunningNotice) = 1
    /\ phase = "exited" => Occurrences(stderr, FailureNotice) = 1

C14_Step == stderr' # stderr => stdout' = stdout

C14_LogsNeverOnProtocolStream == [](C14_State) /\ [][C14_Step]_vars

C14_Witness ==
    /\ stderr = <<LogLine(RunningNotice)>>
    /\ stdout = {ProtocolMessage(1, 1), ProtocolMessage(2, 1)}

(***************************************************************************)
(* C15.  If startup fails (a tool cannot be registered or the channel      *)
(* cannot be bound), the process emits a diagnostic and terminates with a  *)
(* non-zero status, without emitting the "server is running" notice and    *)
(* without accepting any invocation; once startup has succeeded, no        *)
(* invocation outcome (unknown tool, invalid parameters, any gateway       *)
(* error) terminates the process.                                          *)
(***************************************************************************)
NothingAccepted ==
    /\ \A i \in Ids : inv[i] = NoInvocation
    /\ stdout = {}
    /\ ~ENABLED Serve

C15_State ==
    /\ exitCode \in {-1, 1}
    /\ phase = "failed" =>
          /\ Occurrences(stderr, RunningNotice) = 0
          /\ NothingAccepted
    /\ phase = "exited" =>
          /\ exitCode # 0 /\ exitCode # -1
          /\ stderr = <<LogLine(FailureNotice)>>
          /\ NothingAccepted
    /\ phase = "running" =>
          /\ exitCode = -1
          /\ Occurrences(stderr, FailureNotice) = 0

C15_Step ==
    /\ phase = "running" => (phase' = "running" /\ exitCode' = -1)
    /\ phase = "exited" => UNCHANGED vars

C15_StartupFailureTerminates ==
    /\ [](C15_State)
    /\ [][C15_Step]_vars
    /\ (phase = "failed") ~> (phase = "exited" /\ exitCode = 1)

C15_Witness ==
    /\ phase = "exited"
    /\ exitCode = 1
    /\ stderr = <<LogLine(FailureNotice)>>

\* startup succeeded and invocations of every failing kind were served
C15_ServingWitness ==
    /\ phase = "running"
    /\ inv[1].st = "Rejected"
    /\ inv[2].st = "Failed"
    /\ exitCode = -1

(***************************************************************************)
(* Specification for registration: createServer performs any list of      *)
(* registrations of a bounded family, names repeated or not; startup       *)
(* proceeds, and a first request is dispatched against what was            *)
(* registered.                                                             *)
(***************************************************************************)
ToolNames == {Txt_hello, Txt_polyglot, Txt_goodbye}

Descriptors ==
    {ToolDescriptor(n, helloInputSchema, "hello") : n \in ToolNames} \cup
    {ToolDescriptor(n, polyglotInputSchema, "polyglot") : n \in ToolNames}

InitRegister ==
    /\ tools \in Lists(Descriptors, MaxTools)
    /\ variant = "structured"
    /\ phase = "start"
    /\ registry = {}
    /\ inv = [i \in Ids |-> NoInvocation]
    /\ stdout = {}
    /\ stderr = <<>>
    /\ exitCode = -1

ServeFirst == \E req \in Requests : Dispatch(1, req, NoError, NoError)

NextRegister ==
    \/ createServer
    \/ connect
    \/ connectFails
    \/ logRunning
    \/ startupCatch
    \/ ServeFirst

SpecRegister == InitRegister /\ [][NextRegister]_vars

(***************************************************************************)
(* C16.  Registering a second tool under a name that is already registered *)
(* is rejected at registration time, before the server listens, so that in *)
(* every reachable serving state each tool name maps to exactly one        *)
(* descriptor.                                                             *)
(***************************************************************************)
HasDuplicate(ts) ==
    \E m, n \in 1..Len(ts) : m < n /\ ts[m].name = ts[n].name

Registered(ts) == {ts[n] : n \in 1..Len(ts)}

C16_State ==
    /\ \A name \in ToolNames : Cardinality(Lookup(registry, name)) <= 1
    /\ (Listening \/ \E i \in Ids : inv[i].st # "Idle") =>
          /\ ~HasDuplicate(tools)
          /\ registry = Registered(tools)
          /\ \A n \in 1..Len(tools) : Lookup(registry, tools[n].name) = {tools[n]}
    /\ (HasDuplicate(tools) /\ phase # "start") =>
          /\ phase \in {"failed", "exited"}
          /\ \A i \in Ids : inv[i] = NoInvocation
          /\ ~ENABLED ServeFirst

C16_Step ==
    (phase = "start" /\ phase' # "start") =>
        phase' = IF HasDuplicate(tools) THEN "failed" ELSE "created"

C16_DuplicateNameRejected == [](C16_State) /\ [][C16_Step]_vars

C16_Witness ==
    /\ Len(tools) = 2
    /\ tools[1].name = Txt_hello
    /\ tools[2].name = Txt_hello
    /\ tools[1] # tools[2]
    /\ phase = "exited"
    /\ registry = {tools[1]}

(***************************************************************************)
(* C17.  Every polyglot invocation moves through its states only in the    *)
(* order Validating, Prompting, AwaitingModel, then exactly one of         *)
(* Succeeded or Failed; Succeeded and Failed are terminal, and Failed is   *)
(* entered only from AwaitingModel, by a gateway error.                    *)
(***************************************************************************)
IsPrefix(s, t) == Len(s) <= Len(t) /\ SubSeq(t, 1, Len(s)) = s

SucceededPath == <<"Validating", "Prompting", "AwaitingModel", "Succeeded">>
FailedPath == <<"Validating", "Prompting", "AwaitingModel", "Failed">>

HandlerRan(i) == inv[i].toolName = Txt_polyglot /\ inv[i].ran # <<>>

C17_InOrder(i) ==
    /\ inv[i].path # <<>>
    /\ IsPrefix(inv[i].path, SucceededPath) \/ IsPrefix(inv[i].path, FailedPath)
    /\ inv[i].st = "Failed" =>
          /\ inv[i].path = FailedPath
          /\ gatewayCall(variant, inv[i].outcome).threw
          /\ inv[i].caught = gatewayCall(variant, inv[i].outcome).error
    /\ inv[i].st = "Succeeded" =>
          /\ inv[i].path = SucceededPath
          /\ ~gatewayCall(variant, inv[i].outcome).threw

\* the handler is awaiting the model, or has ended in Succeeded or Failed
C17_EndsInSucceededOrFailed(i) ==
    /\ inv[i].st \in {"AwaitingModel", "Succeeded", "Failed"}
    /\ inv[i].st = inv[i].path[Len(inv[i].path)]
    /\ inv[i].reply # NoReply => inv[i].st \in {"Succeeded", "Failed"}

C17_State ==
    \A i \in Ids : HandlerRan(i) => (C17_InOrder(i) /\ C17_EndsInSucceededOrFailed(i))

C17_Step ==
    \A i \in Ids :
        /\ inv[i].st \in {"Succeeded", "Failed"} => inv'[i] = inv[i]
        /\ (inv'[i].st = "Failed" /\ inv[i].st # "Failed") => inv[i].st = "AwaitingModel"
        /\ (inv'[i].st = "Succeeded" /\ inv[i].st # "Succeeded") => inv[i].st = "AwaitingModel"
        /\ IsPrefix(inv[i].path, inv'[i].path)

C17_StatesInOrder == [](C17_State) /\ [][C17_Step]_vars

(***************************************************************************)
(* C18.  The polyglot handler calls the gateway at most once per           *)
(* invocation: after a gateway failure of any kind it goes straight to the *)
(* error reply and never issues a second model call for the invocation.    *)
(***************************************************************************)
C18_State ==
    \A i \in Ids :
        /\ inv[i].calls \in {0, 1}
        /\ inv[i].calls = 1 <=>
              (inv[i].toolName = Txt_polyglot /\
               inv[i].st \in {"AwaitingModel", "Succeeded", "Failed"})
        /\ inv[i].st = "Failed" =>
              /\ inv[i].calls = 1
              /\ inv[i].reply = ResultReply(errorResult(inv[i].caught))
              /\ \A o \in Outcomes(variant) : ~ENABLED GatewayResolve(i, o)

C18_Step ==
    \A i \in Ids :
        /\ inv[i].calls = 1 => inv'[i].calls = 1
        /\ (inv[i].st = "AwaitingModel" /\ inv'[i] # inv[i] /\
            gatewayCall(variant, inv'[i].outcome).threw) =>
              /\ inv'[i].st = "Failed"
              /\ inv'[i].reply = ResultReply(errorResult(inv'[i].caught))

C18_AtMostOneModelCall == [](C18_State) /\ [][C18_Step]_vars

C18_Witness ==
    /\ variant = "structured"
    /\ inv[1].st = "Failed"
    /\ inv[1].caught = SchemaValidationFailure
    /\ inv[1].calls = 1
    /\ inv[2].st = "Failed"
    /\ inv[2].caught = TransportFailure
    /\ inv[2].calls = 1

(***************************************************************************)
(* Specification for the prompt: the server is running and polyglot is     *)
(* called with every greeting of a bounded family of texts, which holds    *)
(* the empty text and texts with quote characters, backslashes, white      *)
(* space and a character of a non-Latin script ("U+3053" stands for the    *)
(* hiragana letter of that code point).                                    *)
(***************************************************************************)
GreetingTexts == Texts({"b", "\"", "\\", " ", "U+3053"}, MaxGreetingLen)

InitPrompt ==
    /\ tools = ServerTools
    /\ variant \in {"plain", "structured"}
    /\ phase = "running"
    /\ registry = RegisterAll({}, ServerTools).registry
    /\ inv = [i \in Ids |-> NoInvocation]
    /\ stdout = {}
    /\ stderr = <<LogLine(RunningNotice)>>
    /\ exitCode = -1

PromptRequests ==
    {Request(Txt_polyglot, <<Member(K_greeting, JStr(g))>>) : g \in GreetingTexts}

NextPrompt == \E req \in PromptRequests : Dispatch(1, req, NoError, NoError)

SpecPrompt == InitPrompt /\ [][NextPrompt]_vars

(***************************************************************************)
(* C19.  For every greeting string, the empty one, non-Latin scripts and   *)
(* quote characters included, the prompt handed to the gateway contains    *)
(* the greeting's characters exactly as received, in order and unmodified: *)
(* the prompt is the template's fixed text with the greeting in its place, *)
(* with no escaping, normalization or truncation.                          *)
(***************************************************************************)
PromptHead(v) == IF v = "plain" THEN PlainPromptHead ELSE StructuredPromptHead
PromptTail(v) == IF v = "plain" THEN PlainPromptTail ELSE StructuredPromptTail

\* the greeting the invocation was called with
ReceivedGreeting(i) == inv[i].arguments[1].v.s

C19_PromptHoldsGreetingVerbatim ==
    \A i \in Ids :
        (inv[i].toolName = Txt_polyglot /\ inv[i].st # "Idle") =>
            /\ inv[i].st = "AwaitingModel"
            /\ inv[i].calls = 1
            /\ Len(inv[i].prompt) =
                  Len(PromptHead(variant)) + Len(ReceivedGreeting(i)) + Len(PromptTail(variant))
            /\ \A n \in 1..Len(ReceivedGreeting(i)) :
                  inv[i].prompt[Len(PromptHead(variant)) + n] = ReceivedGreeting(i)[n]
            /\ SubSeq(inv[i].prompt, 1, Len(PromptHead(variant))) = PromptHead(variant)
            /\ SubSeq(inv[i].prompt,
                      Len(PromptHead(variant)) + Len(ReceivedGreeting(i)) + 1,
                      Len(inv[i].prompt)) = PromptTail(variant)

C19_Witness ==
    /\ inv[1].st = "AwaitingModel"
    /\ ReceivedGreeting(1) = <<" ", "\"", "U+3053">>
    /\ inv[1].prompt = StructuredPromptHead \o <<" ", "\"", "U+3053">> \o StructuredPromptTail

(***************************************************************************)
(* C20.  In every structured-variant success reply of polyglot, the        *)
(* greeting field of the returned object equals the greeting argument of   *)
(* that invocation.                                                        *)
(***************************************************************************)
C20_GreetingFieldEchoesInput ==
    \A i \in Ids :
        (variant = "structured" /\ inv[i].toolName = Txt_polyglot /\
         inv[i].st = "Succeeded") =>
            /\ HasKey(inv[i].response.obj, K_greeting)
            /\ GetKey(inv[i].response.obj, K_greeting) =
                  Argument(inv[i].arguments, K_greeting)
            /\ JSONparse(Payload(inv[i].reply)).ok
            /\ GetKey(JSONparse(Payload(inv[i].reply)).val, K_greeting) =
                  Argument(inv[i].arguments, K_greeting)

(***************************************************************************)
(* C21.  The gateway's structured call ends in exactly one of three        *)
(* outcomes, decided in this order: MalformedModelOutput when the model's  *)
(* reply cannot be parsed as data; SchemaValidationFailure when it parses  *)
(* but does not satisfy the response schema; otherwise a validated object. *)
(* Validation is never applied to an unparsed reply, and an object is      *)
(* never returned without having been validated.                           *)
(***************************************************************************)
\* what the structured call of invocation i came to, as the handler saw it
EndedMalformed(i) == inv[i].st = "Failed" /\ inv[i].caught = MalformedModelOutput
EndedInvalid(i) == inv[i].st = "Failed" /\ inv[i].caught = SchemaValidationFailure
EndedValidated(i) == inv[i].st = "Succeeded" /\ inv[i].response.kind = "object"

\* how many of the three outcomes invocation i ended in
OutcomeCount(i) ==
    (IF EndedMalformed(i) THEN 1 ELSE 0) + (IF EndedInvalid(i) THEN 1 ELSE 0)
        + (IF EndedValidated(i) THEN 1 ELSE 0)

\* the outcome of invocation i matches what parsing the generated text t
\* and validating the parsed data give, in that order
DecidedInOrder(i, t) ==
    /\ EndedMalformed(i) <=> ~JSONparse(t).ok
    /\ EndedInvalid(i) <=>
          (JSONparse(t).ok /\ ~ZodValid(polyglotResponseSchema, JSONparse(t).val))
    /\ EndedValidated(i) <=>
          (JSONparse(t).ok /\ ZodValid(polyglotResponseSchema, JSONparse(t).val))
    /\ EndedValidated(i) =>
          /\ inv[i].response.obj = ZodParse(polyglotResponseSchema, JSONparse(t).val).value
          /\ ZodValid(polyglotResponseSchema, inv[i].response.obj)
          /\ Len(inv[i].response.obj) = Len(polyglotResponseSchema)
    /\ inv[i].response.kind = "object" => inv[i].st = "Succeeded"

C21_ParseThenValidate ==
    \A i \in Ids :
        (variant = "structured" /\ inv[i].outcome.kind = "output") =>
            /\ OutcomeCount(i) = 1
            /\ DecidedInOrder(i, inv[i].outcome.text)

C21_Witness ==
    /\ variant = "structured"
    /\ inv[1].outcome = Generates(Raw_truncated)
    /\ inv[1].caught = MalformedModelOutput
    /\ inv[2].outcome = Generates(Raw_wrongType)
    /\ inv[2].caught = SchemaValidationFailure

\* a validated object was returned for an output with a field the schema
\* does not know
C21_ValidatedWitness ==
    /\ variant = "structured"
    /\ inv[1].outcome = Generates(Raw_extraField)
    /\ inv[1].st = "Succeeded"
    /\ Len(inv[1].response.obj) = 4

(***************************************************************************)
(* C22.  Every structured request the polyglot handler makes to the        *)
(* gateway carries both the response schema and its schema name            *)
(* ("PolyglotResponse"); there is no execution in which the schema is      *)
(* supplied without the name.                                              *)
(***************************************************************************)
C22_State ==
    \A i \in Ids :
        /\ inv[i].structure.hasSchema =>
              /\ inv[i].structure.hasName
              /\ inv[i].structure.name = Txt_PolyglotResponse
              /\ inv[i].structure.schema = polyglotResponseSchema
        /\ (variant = "structured" /\ inv[i].calls > 0) =>
              /\ inv[i].structure.hasSchema
              /\ inv[i].structure.hasName
        /\ inv[i].structure.hasName => inv[i].structure.hasSchema
        /\ variant = "plain" => inv[i].structure = NoStructure

C22_Step ==
    \A i \in Ids : inv[i].st # "Idle" => inv'[i].structure = inv[i].structure

C22_SchemaNameAlwaysSupplied == [](C22_State) /\ [][C22_Step]_vars

C22_Witness ==
    /\ variant = "structured"
    /\ inv[1].st = "Succeeded"
    /\ inv[1].calls = 1
    /\ inv[1].structure =
          [hasSchema |-> TRUE, schema |-> polyglotResponseSchema,
           hasName |-> TRUE, name |-> Txt_PolyglotResponse]
    /\ inv[2].st = "AwaitingModel"
    /\ inv[2].structure = inv[1].structure

(***************************************************************************)
(* C23.  After startup, the registry holds exactly the two descriptors     *)
(* hello and polyglot, and no sequence of invocations (successful,         *)
(* failing, unknown-tool or invalid-parameter) adds, removes or changes a  *)
(* descriptor: every invocation leaves the registry unchanged.             *)
(***************************************************************************)
HelloDescriptor == [name |-> Txt_hello, inputSchema |-> <<>>, handler |-> "hello"]
PolyglotDescriptor ==
    [name |-> Txt_polyglot, inputSchema |-> <<K_greeting>>, handler |-> "polyglot"]

StartedUp == phase \in {"created", "connected", "running"}

C23_State ==
    /\ StartedUp =>
          /\ registry = {HelloDescriptor, PolyglotDescriptor}
          /\ Cardinality(registry) = 2
    /\ (\E i \in Ids : inv[i].st # "Idle") =>
          (StartedUp /\ registry = {HelloDescriptor, PolyglotDescriptor})

C23_Step ==
    /\ StartedUp => registry' = registry
    /\ inv' # inv => (registry' = registry /\ tools' = tools)

C23_RegistryImmutableAfterStartup == [](C23_State) /\ [][C23_Step]_vars

C23_Witness ==
    /\ inv[1].toolName = Txt_goodbye
    /\ inv[1].st = "Rejected"
    /\ inv[2].toolName = Txt_polyglot
    /\ inv[2].st = "Failed"
    /\ registry = {HelloDescriptor, PolyglotDescriptor}

\* an invalid-parameter invocation and a successful one were served
C23_OtherKindsWitness ==
    /\ inv[1].toolName = Txt_polyglot
    /\ inv[1].st = "Rejected"
    /\ inv[2].st = "Succeeded"
    /\ registry = {HelloDescriptor, PolyglotDescriptor}

(***************************************************************************)
(* Specification for the pending model calls: the server is running and    *)
(* serves polyglot("bonjour") and hello requests, any number of them in    *)
(* flight at once; every call the handler issues may resolve with every    *)
(* outcome, at any time and in any order, or stay pending.                 *)
(***************************************************************************)
InitAwait ==
    /\ tools = ServerTools
    /\ variant \in {"plain", "structured"}
    /\ phase = "running"
    /\ registry = RegisterAll({}, ServerTools).registry
    /\ inv = [i \in Ids |-> NoInvocation]
    /\ stdout = {}
    /\ stderr = <<LogLine(RunningNotice)>>
    /\ exitCode = -1

AwaitRequests == {BonjourRequest, Request(Txt_hello, <<>>)}

ServeAwait == \E i \in Ids, req \in AwaitRequests : Dispatch(i, req, NoError, NoError)

NextAwait ==
    \/ ServeAwait
    \/ Resolve

SpecAwait == InitAwait /\ [][NextAwait]_vars

(***************************************************************************)
(* C24.  Provided the gateway call of an invocation eventually resolves    *)
(* (with success or failure), every polyglot invocation eventually reaches *)
(* Succeeded or Failed and its reply is eventually sent; the handler adds  *)
(* no timeout of its own, so an invocation whose gateway call never        *)
(* resolves stays in AwaitingModel and never replies, without blocking any *)
(* other invocation.                                                       *)
(*                                                                         *)
(* The proviso is the hypothesis of the liveness part: for each invocation *)
(* separately, if its own call resolves whenever it stays pending, then    *)
(* the invocation completes.  Nothing is assumed of the other invocations' *)
(* calls, so the conclusion has to hold also in the behaviours in which    *)
(* another call stays pending for ever.                                    *)
(***************************************************************************)
Awaiting(i) == inv[i].st = "AwaitingModel"

Completed(i) ==
    /\ inv[i].st \in {"Succeeded", "Failed"}
    /\ inv[i].reply = ResultReply(inv[i].result)
    /\ Cardinality(Sent(stdout, i)) = 1

C24_State ==
    /\ \A i \in Ids :
          Awaiting(i) =>
              /\ inv[i].reply = NoReply
              /\ Sent(stdout, i) = {}
              /\ inv[i].outcome = NoOutcome
              /\ ENABLED ResolveOf(i)
    /\ (\E j \in Ids : inv[j].st = "Idle") => ENABLED ServeAwait

C24_Step ==
    \A i \in Ids :
        (Awaiting(i) /\ inv'[i] # inv[i]) =>
            /\ inv'[i].outcome # NoOutcome
            /\ inv'[i].st \in {"Succeeded", "Failed"}
            /\ Sent(stdout', i) = {ProtocolMessage(i, 1)}

C24_CompletesWhenGatewayResolves ==
    /\ [](C24_State)
    /\ [][C24_Step]_vars
    /\ \A i \in Ids : WF_vars(ResolveOf(i)) => (Awaiting(i) ~> Completed(i))

\* the first call is pending while a later invocation has completed
C24_Witness ==
    /\ Awaiting(1)
    /\ Sent(stdout, 1) = {}
    /\ inv[2].toolName = Txt_polyglot
    /\ Completed(2)
    /\ inv[2].outcome # NoOutcome

(***************************************************************************)
(* Specification for telling success from failure: the server is running,  *)
(* polyglot("bonjour") is called, and the model call fails or answers with *)
(* texts and objects of a family that holds ordinary answers and answers   *)
(* that quote the handler's own error text, as a string, behind white      *)
(* space, split over text blocks, and inside the fields of an object.      *)
(***************************************************************************)
TellTexts == {<<>>, Txt_monde}

PlainTellContents ==
    {StringContent(t) : t \in TellTexts} \cup
    {StringContent(ErrorPrefix \o t) : t \in TellTexts} \cup
    {StringContent(<<" ">> \o ErrorPrefix \o t) : t \in TellTexts} \cup
    {BlockContent(<<Block("text", ErrorPrefix), Block("text", t)>>) : t \in TellTexts} \cup
    {BlockContent(<<Block("thinking", ErrorPrefix), Block("text", t)>>) : t \in TellTexts}

StructuredTellObjects ==
    {<<Member(K_detectedLanguage, JStr(a)), Member(K_greeting, JStr(Txt_bonjour)),
       Member(K_worldTranslation, JStr(b)), Member(K_languageFamily, JStr(a))>> :
        a \in {Txt_monde, ErrorPrefix}, b \in {t : t \in TellTexts} \cup {ErrorPrefix}}

PlainTellOutcomes ==
    {Throws(TransportFailure), Throws(ThrownUndefined)} \cup
    {Answers(c) : c \in PlainTellContents}

StructuredTellOutcomes ==
    {Throws(TransportFailure), Throws(ThrownUndefined), Generates(Raw_truncated)} \cup
    {Generates(ModelJson(obj)) : obj \in StructuredTellObjects}

ServeTell == \E i \in Ids : Dispatch(i, BonjourRequest, NoError, NoError)

ResolveTellPlain ==
    \E i \in Ids : \E o \in PlainTellOutcomes : variant = "plain" /\ GatewayResolve(i, o)

ResolveTellStructured ==
    \E i \in Ids : \E o \in StructuredTellOutcomes :
        variant = "structured" /\ GatewayResolve(i, o)

NextTell ==
    \/ ServeTell
    \/ ResolveTellPlain
    \/ ResolveTellStructured

SpecTell == InitAwait /\ [][NextTell]_vars

(***************************************************************************)
(* C25.  A caller can tell a polyglot failure from a success by the        *)
(* payload alone: no reply produced on the success path has a payload      *)
(* beginning with "Error calling LLM: ", whatever text or object the       *)
(* gateway returned.                                                       *)
(***************************************************************************)
C25_SuccessNeverLooksLikeFailure ==
    \A i \in Ids :
        (inv[i].toolName = Txt_polyglot /\ inv[i].st = "Succeeded") =>
            /\ OneTextBlock(inv[i].reply)
            /\ ~StartsWith(Payload(inv[i].reply), ErrorPrefix)

\* the structured variant alone: a success payload is the text of a JSON
\* object, which begins with an opening brace
C25_StructuredSuccessIsJson ==
    \A i \in Ids :
        (variant = "structured" /\ inv[i].st = "Succeeded") =>
            /\ Payload(inv[i].reply)[1] = "{"
            /\ ~StartsWith(Payload(inv[i].reply), ErrorPrefix)

(***************************************************************************)
(* C26.  In the plain-text variant, a gateway response that resolves       *)
(* without error but yields no text (a block sequence with no text-kind    *)
(* block, an empty sequence, or only white space) ends in Succeeded with   *)
(* one text block whose payload is the empty string; it is not reported as *)
(* an error.                                                               *)
(***************************************************************************)
AllWhiteSpace(s) == \A n \in 1..Len(s) : IsWhiteSpace(s[n])

\* the content holds no text: a string of white space only (the empty one
\* included), or blocks none of which is a text block with anything but
\* white space in it (an empty sequence included)
YieldsNoText(content) ==
    IF content.isString THEN AllWhiteSpace(content.text)
    ELSE \A n \in 1..Len(content.blocks) :
            content.blocks[n].type = "text" => AllWhiteSpace(content.blocks[n].text)

C26_NoTextIsEmptySuccess ==
    \A i \in Ids :
        (variant = "plain" /\ inv[i].outcome.kind = "content"
           /\ YieldsNoText(inv[i].outcome.content)) =>
            /\ inv[i].st = "Succeeded"
            /\ inv[i].caught = NoError
            /\ inv[i].reply.kind = "result"
            /\ Len(inv[i].reply.result.content) = 1
            /\ inv[i].reply.result.content[1] = [type |-> "text", text |-> <<>>]

\* blocks with no text block among them
C26_Witness ==
    /\ inv[1].outcome.content =
          BlockContent(<<Block("thinking", <<"m">>), Block("thinking", <<"m", " ">>)>>)
    /\ inv[1].st = "Succeeded"
    /\ inv[1].reply = ResultReply(TextResult(<<>>))

\* an empty sequence of blocks
C26_EmptySequenceWitness ==
    /\ inv[1].outcome.content = BlockContent(<<>>)
    /\ inv[1].reply = ResultReply(TextResult(<<>>))

\* a string of white space only
C26_WhiteSpaceWitness ==
    /\ inv[1].outcome.content = StringContent(<<" ", "\n">>)
    /\ inv[1].reply = ResultReply(TextResult(<<>>))

(***************************************************************************)
(* Specification for a gateway that cannot be used: the program starts     *)
(* and serves requests while the model credential is absent (constructing  *)
(* the client may throw) or the gateway is unreachable or refuses the      *)
(* credential (every model call fails).                                    *)
(***************************************************************************)
OfflineOutcomes == {Throws(TransportFailure), Throws(AuthFailure)}

ServeOffline ==
    \E i \in Ids, req \in Requests, c \in ConstructOutcomes : Dispatch(i, req, c, NoError)

ResolveOffline == \E i \in Ids, o \in OfflineOutcomes : GatewayResolve(i, o)

NextOffline ==
    \/ createServer
    \/ connect
    \/ connectFails
    \/ logRunning
    \/ startupCatch
    \/ ServeOffline
    \/ ResolveOffline

SpecOffline == Init /\ [][NextOffline]_vars

(***************************************************************************)
(* C27.  Server startup and the hello tool do not depend on the gateway:   *)
(* with the model credential absent or the gateway unreachable, startup    *)
(* still succeeds, every hello invocation still returns "world", and only  *)
(* polyglot invocations are affected.                                      *)
(***************************************************************************)
\* the slot the next request is received in
FirstIdle ==
    CHOOSE j \in Ids : inv[j].st = "Idle" /\ \A k \in Ids : k < j => inv[k].st # "Idle"

\* startup makes no use of the gateway and each of its steps can be taken
StartupIndependent ==
    /\ phase \in {"start", "created", "connected"} =>
          \A i \in Ids : inv[i] = NoInvocation
    /\ phase = "start" => ENABLED createServer
    /\ phase = "created" => ENABLED connect
    /\ phase = "connected" => ENABLED logRunning
    /\ phase = "running" => (BothRegistered /\ exitCode = -1)

C27_State ==
    /\ StartupIndependent
    /\ \A i \in Ids :
          /\ inv[i].toolName = Txt_hello =>
                /\ inv[i].st = "Returned"
                /\ inv[i].reply = ResultReply(TextResult(world))
          /\ (inv[i].st # "Idle" /\ inv[i].toolName # Txt_polyglot) =>
                /\ inv[i].calls = 0
                /\ inv[i].caught = NoError
                /\ inv[i].outcome = NoOutcome
          /\ (inv[i].caught # NoError \/ inv[i].outcome # NoOutcome) =>
                inv[i].toolName = Txt_polyglot
          /\ HandlerRan(i) => inv[i].st \in {"Escaped", "AwaitingModel", "Failed"}
    /\ (phase = "running" /\ \E j \in Ids : inv[j].st = "Idle") =>
          ENABLED Dispatch(FirstIdle, Request(Txt_hello, <<>>), NoError, NoError)

C27_Step ==
    /\ (phase' = "failed" /\ phase # "failed") => phase = "created"
    /\ phase = "running" => (phase' = "running" /\ exitCode' = -1)

C27_StartupAndHelloIndependentOfGateway == [](C27_State) /\ [][C27_Step]_vars

\* the credential is absent: polyglot cannot construct its client, hello
\* answers afterwards
C27_Witness ==
    /\ phase = "running"
    /\ inv[1].toolName = Txt_polyglot
    /\ inv[1].st = "Escaped"
    /\ inv[1].caught = MissingCredential
    /\ inv[2].toolName = Txt_hello
    /\ inv[2].reply = ResultReply(TextResult(world))

\* the gateway is unreachable: polyglot fails, hello answers afterwards
C27_UnreachableWitness ==
    /\ phase = "running"
    /\ inv[1].toolName = Txt_polyglot
    /\ inv[1].st = "Failed"
    /\ inv[1].caught = TransportFailure
    /\ inv[2].toolName = Txt_hello
    /\ inv[2].reply = ResultReply(TextResult(world))

=============================================================================
